---- MODULE Spec2Model ----
(***************************************************************************)
(* Appointment-booking backend (express).  Two server programs live in the *)
(* repository: the passcode-protected server (bookings, availability       *)
(* overrides, session tokens) and the basic server.js (bookings only).     *)
(* One of the two is the running program; which one is fixed at start.     *)
(* Every route handler is synchronous JavaScript, so one handler is one    *)
(* atomic step.                                                            *)
(***************************************************************************)
EXTENDS Integers, Sequences, FiniteSets, TLC

\* ---------------------------------------------------------------- bounds
\* total number of booking records the stores may hold
MaxBookings == 2
\* size of the value space crypto.randomBytes draws session tokens from
MaxTokens == 1

\* ------------------------------------------------------------ JS values
\* a date string "YYYY-MM-DD" is the sequence of its dash-separated numbers;
\* <<>> is a missing (undefined or empty) date, a shorter sequence a string
\* that is not of that form
Undefined == "undefined"
NoDate == <<>>
Falsy(v) == v = Undefined \/ v = ""
FalsyDate(d) == d = NoDate

Tuesday28 == <<2025, 10, 28>>
Saturday25 == <<2025, 10, 25>>
Sunday26 == <<2025, 10, 26>>
MalformedDate == <<2025, 10>>

\* /^\d{4}-\d{2}-\d{2}$/.test(date)
MatchesDateFormat(d) ==
    /\ Len(d) = 3
    /\ d[1] \in 0..9999
    /\ d[2] \in 0..99
    /\ d[3] \in 0..99

\* days between 1970-01-01 and the civil date y-m-d (proleptic Gregorian),
\* the day number of new Date(date + 'T00:00:00.000Z')
DaysFromEpoch(d) ==
    LET y == IF d[2] <= 2 THEN d[1] - 1 ELSE d[1]
        era == y \div 400
        yoe == y - era * 400
        mp == IF d[2] > 2 THEN d[2] - 3 ELSE d[2] + 9
        doy == (153 * mp + 2) \div 5 + d[3] - 1
        doe == yoe * 365 + yoe \div 4 - yoe \div 100 + doy
    IN  era * 146097 + doe - 719468

\* Date.prototype.getUTCDay: 0 is Sunday; 1970-01-01 was a Thursday
getUTCDay(d) == (DaysFromEpoch(d) + 4) % 7

Slot8 == "08:00 AM - 09:00 AM"
Slot9 == "09:00 AM - 10:00 AM"
Slot10 == "10:00 AM - 11:00 AM"

\* Faulty variant, for sensitivity of the properties: the weekday list on every day, as in server.js
getStandardAvailabilityEveryDay(d) == <<Slot8, Slot9, Slot10>>

getStandardAvailability(d) ==
    LET dayOfWeek == getUTCDay(d)
    IN  IF dayOfWeek = 0 \/ dayOfWeek = 6 THEN <<>> ELSE <<Slot8, Slot9, Slot10>>

ADMIN_PASSCODE == "secret123"

\* server.js, getStandardAvailability
BasicSlot9 == "09:00 AM - 11:00 AM"
BasicSlot11 == "11:00 AM - 01:00 PM"
BasicSlot1 == "01:00 PM - 03:00 PM"
BasicSlot3 == "03:00 PM - 05:00 PM"
basicStandardAvailability == <<BasicSlot9, BasicSlot11, BasicSlot1, BasicSlot3>>

\* ---------------------------------------------------------------- state
VARIABLES
    program,                \* which server runs: "secured" or "basic" (server.js)
    bookings,               \* secured: date -> sequence of booking records
    availabilityOverrides,  \* secured: date -> (slot -> BOOLEAN)
    validTokens,            \* secured: set of session tokens
    basicBookings,          \* server.js: date -> sequence of booked slot labels
    last,                   \* the request answered last and its response
    inflight,               \* connection -> the request it has sent, not yet handled
    answered,               \* connection -> the response to its latest request
    overlap,                \* connection -> connections in flight when it was answered
    heard,                  \* date -> what a client that repeats the listing of the date
                            \* has been told, and what was accepted since
    previous                \* the request answered before the last one and its response

stores == <<bookings, availabilityOverrides, validTokens, basicBookings>>
connections == <<inflight, answered, overlap>>
clients == <<heard, previous>>
vars == <<program, bookings, availabilityOverrides, validTokens, basicBookings, last,
          inflight, answered, overlap, heard, previous>>

\* ------------------------------------------------------------- requests
GET_AVAILABILITY == "GET /api/availability"
POST_BOOK == "POST /api/book"
POST_LOGIN == "POST /api/admin/login"
GET_ADMIN_BOOKINGS == "GET /api/admin/bookings"
GET_ADMIN_AVAILABILITY == "GET /api/admin/availability"
POST_ADMIN_AVAILABILITY == "POST /api/admin/availability"

NoSlots == [given |-> FALSE, map |-> <<>>]
Slots(f) == [given |-> TRUE, map |-> f]
NoAuth == <<>>

Request(route, auth, date, time, name, email, address, notes, passcode, slots) ==
    [route |-> route, auth |-> auth, date |-> date, time |-> time,
     name |-> name, email |-> email, address |-> address, notes |-> notes,
     passcode |-> passcode, slots |-> slots]

BookRequest(d, t, x) ==
    Request(POST_BOOK, NoAuth, d, t, x[1], x[2], x[3], x[4], Undefined, NoSlots)
AvailabilityRequest(d) ==
    Request(GET_AVAILABILITY, NoAuth, d, Undefined, Undefined, Undefined, Undefined,
            Undefined, Undefined, NoSlots)
LoginRequest(p) ==
    Request(POST_LOGIN, NoAuth, NoDate, Undefined, Undefined, Undefined, Undefined,
            Undefined, p, NoSlots)
AdminGetRequest(r, a) ==
    Request(r, a, NoDate, Undefined, Undefined, Undefined, Undefined, Undefined,
            Undefined, NoSlots)
AdminPostRequest(a, d, s) ==
    Request(POST_ADMIN_AVAILABILITY, a, d, Undefined, Undefined, Undefined, Undefined,
            Undefined, Undefined, s)

\* the (date, slot) pairs booking requests name
BookSlots ==
    {<<Tuesday28, Slot8>>, <<Tuesday28, Slot9>>, <<Saturday25, Slot8>>, <<Tuesday28, BasicSlot9>>}
BasicBookSlots == {<<Tuesday28, BasicSlot9>>, <<Tuesday28, BasicSlot11>>, <<Saturday25, BasicSlot9>>}
QueryDates == {Tuesday28, Saturday25, Sunday26, MalformedDate, NoDate}
TokenSpace == 1..MaxTokens
BearerHeaders == {<<"Bearer", t>> : t \in TokenSpace}
AuthHeaders == {NoAuth, <<"Basic", 1>>} \cup BearerHeaders
Passcodes == {ADMIN_PASSCODE, "letmein"}

\* the details <<name, email, address, notes>> of a booking request
Full == <<"A", "a@x.com", "1 Main St", "ring twice">>
NoNotes == <<"A", "a@x.com", "1 Main St", Undefined>>
NoName == <<"", "a@x.com", "1 Main St", Undefined>>
BookDetails ==
    {Full, NoNotes, NoName,
     <<"A", Undefined, "1 Main St", Undefined>>,
     <<"A", "a@x.com", "", Undefined>>}

AvailabilityRequests == {AvailabilityRequest(d) : d \in QueryDates}
BookRequests ==
    {BookRequest(k[1], k[2], Full) : k \in BookSlots}
    \cup {BookRequest(Tuesday28, Slot8, x) : x \in BookDetails}
    \cup {BookRequest(NoDate, Slot8, Full), BookRequest(Tuesday28, Undefined, Full)}
LoginRequests == {LoginRequest(p) : p \in Passcodes}
AdminGetRequests ==
    {AdminGetRequest(r, a) : r \in {GET_ADMIN_BOOKINGS, GET_ADMIN_AVAILABILITY},
                             a \in AuthHeaders}
\* override patches: single entries, the empty object, one patch of two entries
TuesdayPatches ==
    {<<>>, Slot8 :> FALSE, Slot8 :> TRUE, Slot9 :> FALSE, Slot9 :> TRUE,
     (Slot8 :> FALSE) @@ (Slot9 :> TRUE)}
SaturdayPatches == {Slot8 :> FALSE, Slot8 :> TRUE}
AdminPostRequests ==
    {AdminPostRequest(a, Tuesday28, Slots(f)) : a \in BearerHeaders, f \in TuesdayPatches}
    \cup {AdminPostRequest(a, Saturday25, Slots(f)) : a \in BearerHeaders, f \in SaturdayPatches}
    \cup {AdminPostRequest(a, Tuesday28, Slots(Slot8 :> FALSE)) : a \in AuthHeaders}
    \cup {AdminPostRequest(a, NoDate, Slots(Slot8 :> FALSE)) : a \in BearerHeaders}
    \cup {AdminPostRequest(a, Tuesday28, NoSlots) : a \in BearerHeaders}

SecuredRequests ==
    AvailabilityRequests \cup BookRequests \cup LoginRequests
        \cup AdminGetRequests \cup AdminPostRequests

BasicRequests ==
    {AvailabilityRequest(d) : d \in {Tuesday28, Saturday25, NoDate}}
    \cup {BookRequest(k[1], k[2], Full) : k \in BasicBookSlots}
    \cup {BookRequest(Tuesday28, BasicSlot9, x) : x \in BookDetails}
    \cup {BookRequest(NoDate, BasicSlot9, Full), BookRequest(Tuesday28, Undefined, Full)}

Requests == SecuredRequests \cup BasicRequests

\* the connections that may have a request in flight at the same time, and the
\* requests they send
Connections == {"c1", "c2"}
ConcurrentRequests(prog) ==
    IF prog = "basic"
    THEN {BookRequest(Tuesday28, BasicSlot9, Full), BookRequest(Tuesday28, BasicSlot11, Full),
          AvailabilityRequest(Tuesday28)}
    ELSE
    {BookRequest(Tuesday28, Slot8, Full), BookRequest(Tuesday28, Slot9, Full),
     BookRequest(Tuesday28, Slot8, NoName),
     AvailabilityRequest(Tuesday28), LoginRequest(ADMIN_PASSCODE),
     AdminGetRequest(GET_ADMIN_BOOKINGS, <<"Bearer", 1>>),
     AdminGetRequest(GET_ADMIN_AVAILABILITY, <<"Bearer", 1>>),
     AdminPostRequest(<<"Bearer", 1>>, Tuesday28, Slots(Slot8 :> FALSE)),
     AdminPostRequest(<<"Bearer", 1>>, Tuesday28, Slots(Slot8 :> TRUE))}

NoRequest ==
    Request("", NoAuth, NoDate, Undefined, Undefined, Undefined, Undefined, Undefined,
            Undefined, NoSlots)
NoResponse == [req |-> NoRequest, status |-> 0, body |-> <<>>]

\* the dates whose listing a client asks for again and again
ListedDates == {Tuesday28, Saturday25}
\* times: listings of the date answered since the last accepted booking or
\* patch (counted up to 2); body: the latest of them; booked, patched: a
\* booking, an override patch was accepted since
NothingHeard == [times |-> 0, body |-> <<>>, booked |-> FALSE, patched |-> FALSE]

\* res.status(s).json(body)
Respond(req, status, body) ==
    last' = [req |-> req, status |-> status, body |-> body]

\* ------------------------------------------------------------- helpers
\* bookings[date] || []
BookingsOf(d) == IF d \in DOMAIN bookings THEN bookings[d] ELSE <<>>

\* availabilityOverrides[date] || {}
dayOverrides(d) ==
    IF d \in DOMAIN availabilityOverrides THEN availabilityOverrides[d] ELSE <<>>

\* Faulty variant, for sensitivity of the properties: !dayOverrides[time], which also counts a slot without override
isManuallyDisabledFalsy(d, t) == ~(t \in DOMAIN dayOverrides(d) /\ dayOverrides(d)[t] = TRUE)

\* dayOverrides[time] === false
isManuallyDisabled(d, t) == t \in DOMAIN dayOverrides(d) /\ dayOverrides(d)[t] = FALSE

\* Faulty variant, for sensitivity of the properties: the records are compared with the slot label itself, as server.js
\* does with its list of labels; no record ever equals a label
isBookedIncludes(d, t) == \E i \in 1..Len(BookingsOf(d)) : FALSE

\* bookedTimesForDate.includes(time), bookings[date].some(b => b.time === time)
isBooked(d, t) == \E i \in 1..Len(BookingsOf(d)) : BookingsOf(d)[i].time = t

\* Faulty variant, for sensitivity of the properties: the listing is empty once a session token exists
availableTimesLoggedOut(d) ==
    SelectSeq(getStandardAvailability(d),
              LAMBDA t : ~isManuallyDisabled(d, t) /\ ~isBooked(d, t) /\ validTokens = {})

\* allTimes.filter(time => !isManuallyDisabled && !isBooked)
availableTimes(d) ==
    SelectSeq(getStandardAvailability(d),
              LAMBDA t : ~isManuallyDisabled(d, t) /\ ~isBooked(d, t))

\* number of records in a store that maps dates to lists
Total(store) ==
    LET RECURSIVE Sum(_)
        Sum(S) == IF S = {} THEN 0
                  ELSE LET d == CHOOSE x \in S : TRUE
                       IN  Len(store[d]) + Sum(S \ {d})
    IN  Sum(DOMAIN store)

\* Faulty variant, for sensitivity of the properties: store[date].unshift(item)
Unshift(store, d, item) ==
    [k \in DOMAIN store \cup {d} |->
        IF k = d THEN <<item>> \o (IF d \in DOMAIN store THEN store[d] ELSE <<>>)
        ELSE store[k]]

\* store[date].push(item), after store[date] = [] where it was missing
Push(store, d, item) ==
    [k \in DOMAIN store \cup {d} |->
        IF k = d THEN Append(IF d \in DOMAIN store THEN store[d] ELSE <<>>, item)
        ELSE store[k]]

\* Faulty variant, for sensitivity of the properties: the name is not required
missingBookingInformationButName(req) ==
    \/ FalsyDate(req.date) \/ Falsy(req.time)
    \/ Falsy(req.email) \/ Falsy(req.address)

\* !date || !time || !name || !email || !address
missingBookingInformation(req) ==
    \/ FalsyDate(req.date) \/ Falsy(req.time) \/ Falsy(req.name)
    \/ Falsy(req.email) \/ Falsy(req.address)

\* --------------------------------------------------------------- actions
Init ==
    /\ program \in {"secured", "basic"}
    /\ bookings = <<>>
    /\ availabilityOverrides = <<>>
    /\ validTokens = {}
    /\ basicBookings = <<>>
    /\ last = NoResponse
    /\ inflight = [c \in Connections |-> NoRequest]
    /\ answered = [c \in Connections |-> NoResponse]
    /\ overlap = [c \in Connections |-> {}]
    /\ heard = [d \in ListedDates |-> NothingHeard]
    /\ previous = NoResponse

\* publicRouter.get('/api/availability')
HandleGetAvailability(req) ==
    /\ program = "secured"
    /\ req.route = GET_AVAILABILITY
    /\ IF FalsyDate(req.date) \/ ~MatchesDateFormat(req.date)
       THEN Respond(req, 400, <<>>)
       ELSE Respond(req, 200, availableTimes(req.date))
    /\ UNCHANGED <<program, stores>>

\* Faulty variant, for sensitivity of the properties: the 409 answer looks at the override alone
slotUnavailableOverrideOnly(d, t) == isManuallyDisabled(d, t)

\* Faulty variant, for sensitivity of the properties: a slot is refused unless its override is true
slotUnavailableUnlessEnabled(d, t) ==
    isBooked(d, t) \/ ~(t \in DOMAIN dayOverrides(d) /\ dayOverrides(d)[t] = TRUE)

\* the condition of the 409 answer of publicRouter.post('/api/book')
slotUnavailable(d, t) == isBooked(d, t) \/ isManuallyDisabled(d, t)

\* Faulty variant, for sensitivity of the properties: an accepted booking also writes the override false for its slot
HandlePostBookClosing(req) ==
    /\ program = "secured"
    /\ req.route = POST_BOOK
    /\ IF missingBookingInformation(req)
       THEN /\ Respond(req, 400, <<>>)
            /\ UNCHANGED <<bookings, availabilityOverrides>>
       ELSE IF slotUnavailable(req.date, req.time)
       THEN /\ Respond(req, 409, <<>>)
            /\ UNCHANGED <<bookings, availabilityOverrides>>
       ELSE /\ Total(bookings) < MaxBookings
            /\ LET newBooking == [time |-> req.time, name |-> req.name, email |-> req.email,
                                  address |-> req.address, notes |-> req.notes]
               IN  bookings' = Push(bookings, req.date, newBooking)
            /\ availabilityOverrides' =
                   [d \in DOMAIN availabilityOverrides \cup {req.date} |->
                       IF d = req.date THEN (req.time :> FALSE) @@ dayOverrides(d)
                       ELSE availabilityOverrides[d]]
            /\ Respond(req, 201, <<>>)
    /\ UNCHANGED <<program, validTokens, basicBookings>>

\* publicRouter.post('/api/book')
HandlePostBook(req) ==
    /\ program = "secured"
    /\ req.route = POST_BOOK
    /\ IF missingBookingInformation(req)
       THEN /\ Respond(req, 400, <<>>)
            /\ UNCHANGED bookings
       ELSE IF slotUnavailable(req.date, req.time)
       THEN /\ Respond(req, 409, <<>>)
            /\ UNCHANGED bookings
       ELSE /\ Total(bookings) < MaxBookings
            /\ LET newBooking == [time |-> req.time, name |-> req.name, email |-> req.email,
                                  address |-> req.address, notes |-> req.notes]
               IN  bookings' = Push(bookings, req.date, newBooking)
            /\ Respond(req, 201, <<>>)
    /\ UNCHANGED <<program, availabilityOverrides, validTokens, basicBookings>>

\* Faulty variant, for sensitivity of the properties: a failed login empties the token registry
HandlePostLoginRevoking(req) ==
    /\ program = "secured"
    /\ req.route = POST_LOGIN
    /\ IF req.passcode = ADMIN_PASSCODE
       THEN \E token \in TokenSpace :
                /\ validTokens' = validTokens \cup {token}
                /\ Respond(req, 200, <<token>>)
       ELSE /\ Respond(req, 401, <<>>)
            /\ validTokens' = {}
    /\ UNCHANGED <<program, bookings, availabilityOverrides, basicBookings>>

\* Faulty variant, for sensitivity of the properties: a login that follows a refused login is refused
HandlePostLoginLockout(req) ==
    /\ program = "secured"
    /\ req.route = POST_LOGIN
    /\ IF req.passcode = ADMIN_PASSCODE /\ ~(last.req.route = POST_LOGIN /\ last.status = 401)
       THEN \E token \in TokenSpace :
                /\ validTokens' = validTokens \cup {token}
                /\ Respond(req, 200, <<token>>)
       ELSE /\ Respond(req, 401, <<>>)
            /\ UNCHANGED validTokens
    /\ UNCHANGED <<program, bookings, availabilityOverrides, basicBookings>>

\* adminRouter.post('/login')
HandlePostLogin(req) ==
    /\ program = "secured"
    /\ req.route = POST_LOGIN
    /\ IF req.passcode = ADMIN_PASSCODE
       THEN \E token \in TokenSpace :
                /\ validTokens' = validTokens \cup {token}
                /\ Respond(req, 200, <<token>>)
       ELSE /\ Respond(req, 401, <<>>)
            /\ UNCHANGED validTokens
    /\ UNCHANGED <<program, bookings, availabilityOverrides, basicBookings>>

\* Faulty variant, for sensitivity of the properties: any bearer token passes
authMiddlewareAnyBearer(req) ==
    IF req.auth = NoAuth \/ req.auth[1] # "Bearer" THEN 401 ELSE 0

\* authMiddleware: the status it answers with, 0 when it calls next()
authMiddleware(req) ==
    IF req.auth = NoAuth \/ req.auth[1] # "Bearer" THEN 401
    ELSE IF req.auth[2] \notin validTokens THEN 403
    ELSE 0

\* adminRouter.get('/bookings')
HandleGetAdminBookings(req) ==
    /\ program = "secured"
    /\ req.route = GET_ADMIN_BOOKINGS
    /\ IF authMiddleware(req) # 0
       THEN Respond(req, authMiddleware(req), <<>>)
       ELSE Respond(req, 200, <<bookings>>)
    /\ UNCHANGED <<program, stores>>

\* adminRouter.get('/availability')
HandleGetAdminAvailability(req) ==
    /\ program = "secured"
    /\ req.route = GET_ADMIN_AVAILABILITY
    /\ IF authMiddleware(req) # 0
       THEN Respond(req, authMiddleware(req), <<>>)
       ELSE Respond(req, 200, <<availabilityOverrides>>)
    /\ UNCHANGED <<program, stores>>

\* Faulty variant, for sensitivity of the properties: Object.assign(source, target), the entries already stored win
ObjectAssignKeep(target, source) ==
    [k \in DOMAIN target \cup DOMAIN source |->
        IF k \in DOMAIN target THEN target[k] ELSE source[k]]

\* Faulty variant, for sensitivity of the properties: availabilityOverrides[date] = slots, the stored entries are dropped
ObjectReplace(target, source) == source

\* Object.assign(target, source)
ObjectAssign(target, source) ==
    [k \in DOMAIN target \cup DOMAIN source |->
        IF k \in DOMAIN source THEN source[k] ELSE target[k]]

\* Faulty variant, for sensitivity of the properties: availabilityOverrides[date] = {} is created before the body is validated
HandlePostAdminAvailabilityEager(req) ==
    /\ program = "secured"
    /\ req.route = POST_ADMIN_AVAILABILITY
    /\ IF authMiddleware(req) # 0
       THEN /\ Respond(req, authMiddleware(req), <<>>)
            /\ UNCHANGED availabilityOverrides
       ELSE LET created == [d \in DOMAIN availabilityOverrides \cup {req.date} |-> dayOverrides(d)]
            IN  IF FalsyDate(req.date) \/ ~req.slots.given
                THEN /\ Respond(req, 400, <<>>)
                     /\ availabilityOverrides' = created
                ELSE /\ availabilityOverrides' =
                            [d \in DOMAIN created |->
                                IF d = req.date THEN ObjectAssign(created[d], req.slots.map)
                                ELSE created[d]]
                     /\ Respond(req, 200, <<>>)
    /\ UNCHANGED <<program, bookings, validTokens, basicBookings>>

\* adminRouter.post('/availability')
HandlePostAdminAvailability(req) ==
    /\ program = "secured"
    /\ req.route = POST_ADMIN_AVAILABILITY
    /\ IF authMiddleware(req) # 0
       THEN /\ Respond(req, authMiddleware(req), <<>>)
            /\ UNCHANGED availabilityOverrides
       ELSE IF FalsyDate(req.date) \/ ~req.slots.given
       THEN /\ Respond(req, 400, <<>>)
            /\ UNCHANGED availabilityOverrides
       ELSE /\ availabilityOverrides' =
                   [d \in DOMAIN availabilityOverrides \cup {req.date} |->
                       IF d = req.date THEN ObjectAssign(dayOverrides(d), req.slots.map)
                       ELSE availabilityOverrides[d]]
            /\ Respond(req, 200, <<>>)
    /\ UNCHANGED <<program, bookings, validTokens, basicBookings>>

\* server.js, app.get('/api/availability')
HandleBasicGetAvailability(req) ==
    /\ program = "basic"
    /\ req.route = GET_AVAILABILITY
    /\ IF FalsyDate(req.date)
       THEN Respond(req, 400, <<>>)
       ELSE LET bookedTimesForDate ==
                    IF req.date \in DOMAIN basicBookings THEN basicBookings[req.date] ELSE <<>>
            IN  Respond(req, 200,
                        SelectSeq(basicStandardAvailability,
                                  LAMBDA t : \A i \in 1..Len(bookedTimesForDate) :
                                                 bookedTimesForDate[i] # t))
    /\ UNCHANGED <<program, stores>>

\* server.js: if (!bookings[date]) { bookings[date] = []; }
initDate(store, d) == [k \in DOMAIN store \cup {d} |-> IF k \in DOMAIN store THEN store[k] ELSE <<>>]

\* server.js, app.post('/api/book')
HandleBasicPostBook(req) ==
    /\ program = "basic"
    /\ req.route = POST_BOOK
    /\ IF missingBookingInformation(req)
       THEN /\ Respond(req, 400, <<>>)
            /\ UNCHANGED basicBookings
       ELSE LET initialised == initDate(basicBookings, req.date)
            IN  IF \E i \in 1..Len(initialised[req.date]) : initialised[req.date][i] = req.time
                THEN /\ Respond(req, 409, <<>>)
                     /\ basicBookings' = initialised
                ELSE /\ Total(basicBookings) < MaxBookings
                     /\ basicBookings' = Push(initialised, req.date, req.time)
                     /\ Respond(req, 201, <<>>)
    /\ UNCHANGED <<program, bookings, availabilityOverrides, validTokens>>

\* the route handler that answers req
Handle(req) ==
    \/ HandleGetAvailability(req)
    \/ HandlePostBook(req)
    \/ HandlePostLogin(req)
    \/ HandleGetAdminBookings(req)
    \/ HandleGetAdminAvailability(req)
    \/ HandlePostAdminAvailability(req)
    \/ HandleBasicGetAvailability(req)
    \/ HandleBasicPostBook(req)

\* requests arrive and are answered one after the other
GetAvailability == \E req \in SecuredRequests : HandleGetAvailability(req) /\ UNCHANGED <<connections, clients>>
PostBook == \E req \in SecuredRequests : HandlePostBook(req) /\ UNCHANGED <<connections, clients>>
PostLogin == \E req \in SecuredRequests : HandlePostLogin(req) /\ UNCHANGED <<connections, clients>>
GetAdminBookings == \E req \in SecuredRequests : HandleGetAdminBookings(req) /\ UNCHANGED <<connections, clients>>
GetAdminAvailability ==
    \E req \in SecuredRequests : HandleGetAdminAvailability(req) /\ UNCHANGED <<connections, clients>>
PostAdminAvailability ==
    \E req \in SecuredRequests : HandlePostAdminAvailability(req) /\ UNCHANGED <<connections, clients>>
BasicGetAvailability ==
    \E req \in BasicRequests : HandleBasicGetAvailability(req) /\ UNCHANGED <<connections, clients>>
BasicPostBook == \E req \in BasicRequests : HandleBasicPostBook(req) /\ UNCHANGED <<connections, clients>>

Next ==
    \/ GetAvailability
    \/ PostBook
    \/ PostLogin
    \/ GetAdminBookings
    \/ GetAdminAvailability
    \/ PostAdminAvailability
    \/ BasicGetAvailability
    \/ BasicPostBook

Spec == Init /\ [][Next]_vars

\* ---------------------------------------------- requests in flight together
\* express reads the body of a request (bodyParser.json) before it calls the
\* route handler, so requests of several connections are in flight together
\* and their handlers run in any order, each one to completion
Send(c, req) ==
    /\ inflight[c] = NoRequest
    /\ inflight' = [inflight EXCEPT ![c] = req]
    /\ answered' = [answered EXCEPT ![c] = NoResponse]
    /\ overlap' = [k \in Connections |-> IF k = c THEN {} ELSE overlap[k] \ {c}]
    /\ UNCHANGED <<program, stores, last, clients>>

Serve(c) ==
    /\ inflight[c] # NoRequest
    /\ Handle(inflight[c])
    /\ inflight' = [inflight EXCEPT ![c] = NoRequest]
    /\ answered' = [answered EXCEPT ![c] = last']
    /\ overlap' = [overlap EXCEPT ![c] = {k \in Connections \ {c} : inflight[k] # NoRequest}]
    /\ UNCHANGED clients

NextConcurrent ==
    \/ \E c \in Connections, req \in ConcurrentRequests(program) : Send(c, req)
    \/ \E c \in Connections : Serve(c)

SpecConcurrent == Init /\ [][NextConcurrent]_vars

\* ------------------------------------------- a client repeating the listing
\* the requests handled while clients repeat GET /api/availability
RepeatRequests(prog) ==
    IF prog = "basic"
    THEN {AvailabilityRequest(Tuesday28), AvailabilityRequest(NoDate),
          BookRequest(Tuesday28, BasicSlot9, Full), BookRequest(Tuesday28, BasicSlot11, Full),
          BookRequest(Tuesday28, BasicSlot9, NoName)}
    ELSE
    {AvailabilityRequest(Tuesday28), AvailabilityRequest(Saturday25),
     AvailabilityRequest(MalformedDate),
     BookRequest(Tuesday28, Slot8, Full), BookRequest(Tuesday28, Slot9, Full),
     BookRequest(Tuesday28, Slot8, NoName),
     LoginRequest(ADMIN_PASSCODE), LoginRequest("letmein"),
     AdminGetRequest(GET_ADMIN_BOOKINGS, <<"Bearer", 1>>),
     AdminGetRequest(GET_ADMIN_AVAILABILITY, <<"Bearer", 1>>),
     AdminPostRequest(<<"Bearer", 1>>, Tuesday28, Slots(Slot8 :> FALSE)),
     AdminPostRequest(<<"Bearer", 1>>, Tuesday28, Slots(Slot8 :> TRUE)),
     AdminPostRequest(<<"Bearer", 1>>, Saturday25, Slots(Slot8 :> TRUE)),
     AdminPostRequest(NoAuth, Tuesday28, Slots(Slot8 :> FALSE))}

\* what the clients have heard once the response res went out
Hear(res) ==
    IF res.req.route = GET_AVAILABILITY /\ res.status = 200 /\ res.req.date \in ListedDates
    THEN [heard EXCEPT ![res.req.date] =
            [times |-> IF @.booked \/ @.patched \/ @.times = 0 THEN 1 ELSE 2,
             body |-> res.body, booked |-> FALSE, patched |-> FALSE]]
    ELSE IF res.req.route = POST_BOOK /\ res.status = 201
    THEN [d \in ListedDates |-> [heard[d] EXCEPT !.booked = TRUE]]
    ELSE IF res.req.route = POST_ADMIN_AVAILABILITY /\ res.status = 200
    THEN [d \in ListedDates |-> [heard[d] EXCEPT !.patched = TRUE]]
    ELSE heard

\* a request is handled and the clients take note of the response
Listen(req) ==
    /\ Handle(req)
    /\ heard' = Hear(last')
    /\ UNCHANGED <<connections, previous>>

NextRepeat == \E req \in RepeatRequests(program) : Listen(req)

SpecRepeat == Init /\ [][NextRepeat]_vars

\* --------------------------------------------- one request after the other
\* a request is handled; the response given before it is kept beside its own
Follow(req) ==
    /\ Handle(req)
    /\ previous' = last
    /\ UNCHANGED <<connections, heard>>

NextSequence == \E req \in RepeatRequests(program) : Follow(req)

SpecSequence == Init /\ [][NextSequence]_vars

TypeOK == last.status \in {0, 200, 201, 400, 401, 403, 409}
\* ===================================================================== claims
Range(s) == {s[i] : i \in 1..Len(s)}

\* the booking store holds a record for slot t of date d
HasRecord(d, t) ==
    /\ d \in DOMAIN bookings
    /\ \E i \in 1..Len(bookings[d]) : bookings[d][i].time = t

\* the override store holds value v for slot t of date d
OverrideIs(d, t, v) ==
    /\ d \in DOMAIN availabilityOverrides
    /\ t \in DOMAIN availabilityOverrides[d]
    /\ availabilityOverrides[d][t] = v

\* r is a booking request with all required fields
CompleteBook(r) ==
    /\ r.route = POST_BOOK
    /\ r.date # NoDate
    /\ r.time \notin {Undefined, ""}
    /\ r.name \notin {Undefined, ""}
    /\ r.email \notin {Undefined, ""}
    /\ r.address \notin {Undefined, ""}

Labels == {Slot8, Slot9, Slot10, BasicSlot9}

\* C1: in every reachable state the booking store holds at most one booking
\* record for any (date, slot) pair (in the secured server and in server.js).
C1_AtMostOneBookingPerSlot ==
    /\ \A d \in DOMAIN bookings : \A i, j \in 1..Len(bookings[d]) :
           i # j => bookings[d][i].time # bookings[d][j].time
    /\ \A d \in DOMAIN basicBookings : \A i, j \in 1..Len(basicBookings[d]) :
           i # j => basicBookings[d][i] # basicBookings[d][j]

\* a second request for a booked slot was refused while its override is true and
\* another slot of the same date is booked too
C1_Witness ==
    /\ program = "secured" /\ CompleteBook(last.req) /\ last.status = 409
    /\ HasRecord(last.req.date, last.req.time)
    /\ Len(bookings[last.req.date]) = 2
    /\ OverrideIs(last.req.date, last.req.time, TRUE)

\* the slot labels of the records of date d
BookedTimes(d) == {bookings[d][i].time : i \in 1..Len(bookings[d])}

\* C2 as stated: once a booking record for (D, T) exists (the effect of a
\* successful POST /api/book), every booking request naming (D, T) handled
\* later is answered 409 and every availability listing of D omits T.
C2_EveryLaterRequest409 ==
    [][\A d \in DOMAIN bookings : \A t \in BookedTimes(d) :
            /\ (last'.req.route = POST_BOOK /\ last'.req.date = d /\ last'.req.time = t)
                   => last'.status = 409
            /\ (last'.req.route = GET_AVAILABILITY /\ last'.req.date = d /\ last'.status = 200)
                   => t \notin Range(last'.body)]_vars

\* C2, amended: a successful POST /api/book for (D, T) leaves a record for
\* (D, T); once the record exists it stays, every booking request for (D, T)
\* with all required fields handled later is answered 409 and every
\* availability listing of D given later omits T, whatever requests
\* (override patches that set T to true among them) are handled in between.
C2_ConflictLaw ==
    /\ [](program = "secured" /\ CompleteBook(last.req) /\ last.status = 201
            => HasRecord(last.req.date, last.req.time))
    /\ [][\A d \in DOMAIN bookings : \A t \in BookedTimes(d) :
            /\ HasRecord(d, t)'
            /\ (CompleteBook(last'.req) /\ last'.req.date = d /\ last'.req.time = t)
                   => last'.status = 409
            /\ (last'.req.route = GET_AVAILABILITY /\ last'.req.date = d /\ last'.status = 200)
                   => t \notin Range(last'.body)]_vars

\* the listing of a weekday omits a booked slot whose override is true
C2_Witness ==
    /\ last.req.route = GET_AVAILABILITY /\ last.status = 200
    /\ \E t \in Range(getStandardAvailability(last.req.date)) :
           /\ HasRecord(last.req.date, t)
           /\ OverrideIs(last.req.date, t, TRUE)
           /\ t \notin Range(last.body)

\* position of a label in the standard slot list of date d, 0 when it is not in it
StandardIndex(d, t) ==
    IF t \in Range(getStandardAvailability(d))
    THEN CHOOSE i \in 1..Len(getStandardAvailability(d)) : getStandardAvailability(d)[i] = t
    ELSE 0

\* C3: GET /api/availability for a valid date D answers 200 and lists T iff T
\* is a standard slot of D, the override of (D, T) is not false and no booking
\* record exists for (D, T); the listed slots are in standard order, no slot twice.
C3_AvailabilityIff ==
    (program = "secured" /\ last.req.route = GET_AVAILABILITY /\ MatchesDateFormat(last.req.date)) =>
        /\ last.status = 200
        /\ \A t \in Labels :
               t \in Range(last.body) <=>
                   /\ t \in Range(getStandardAvailability(last.req.date))
                   /\ ~OverrideIs(last.req.date, t, FALSE)
                   /\ ~HasRecord(last.req.date, t)
        /\ Range(last.body) \subseteq Labels
        /\ \A i, j \in 1..Len(last.body) :
               i < j => StandardIndex(last.req.date, last.body[i])
                            < StandardIndex(last.req.date, last.body[j])

\* a weekday listing with one slot booked, one disabled and the third listed
C3_Witness ==
    /\ last.req.route = GET_AVAILABILITY /\ last.status = 200
    /\ last.body = <<Slot10>>
    /\ HasRecord(last.req.date, Slot8)
    /\ OverrideIs(last.req.date, Slot9, FALSE)

\* slot t of date d is not available
Unavailable(d, t) ==
    \/ t \notin Range(getStandardAvailability(d))
    \/ OverrideIs(d, t, FALSE)
    \/ HasRecord(d, t)

\* C4: a booking request for (D, T) with all required fields is answered 409
\* whenever T is unavailable for D: T is not a standard slot of D, or the
\* override of (D, T) is false, or a booking for (D, T) exists.
C4_UnavailableSlotRefused ==
    [][(program = "secured" /\ CompleteBook(last'.req)
            /\ Unavailable(last'.req.date, last'.req.time))
        => last'.status = 409]_vars

\* C5: a booking request with all required fields is answered 409, the store
\* unchanged, if T is booked for D or the override of (D, T) is false;
\* otherwise it appends exactly one record for (D, T), with the request's
\* details, to D's list, leaves every other list alone and is answered 201.
C5_CreateBooking ==
    [][(program = "secured" /\ CompleteBook(last'.req)) =>
        LET r == last'.req
            old == IF r.date \in DOMAIN bookings THEN bookings[r.date] ELSE <<>>
        IN  IF HasRecord(r.date, r.time) \/ OverrideIs(r.date, r.time, FALSE)
            THEN last'.status = 409 /\ bookings' = bookings
            ELSE /\ last'.status = 201
                 /\ DOMAIN bookings' = DOMAIN bookings \cup {r.date}
                 /\ bookings'[r.date] =
                        Append(old, [time |-> r.time, name |-> r.name, email |-> r.email,
                                     address |-> r.address, notes |-> r.notes])
                 /\ \A d \in DOMAIN bookings : d # r.date => bookings'[d] = bookings[d]]_vars

\* a booking was appended behind an earlier record of the same date
C5_Witness ==
    /\ program = "secured" /\ CompleteBook(last.req) /\ last.status = 201
    /\ Len(bookings[last.req.date]) = 2
    /\ bookings[last.req.date][2].time = last.req.time
\* C6 as stated: of two booking requests for the same (date, slot) in flight
\* together, at most one is answered 201 and the other is answered 409.
C6_LoserObserves409 ==
    \A c1, c2 \in Connections :
        (/\ c1 # c2
         /\ answered[c1].req.route = POST_BOOK /\ answered[c2].req.route = POST_BOOK
         /\ answered[c1].req.date = answered[c2].req.date
         /\ answered[c1].req.time = answered[c2].req.time
         /\ answered[c1].status = 201)
        => answered[c2].status = 409

\* C6, amended: when two booking requests with all required fields for the
\* same (date, slot) are in flight together and their handlers run in either
\* order, at most one is answered 201 and the other is answered 409.
C6_OneWinner ==
    \A c1, c2 \in Connections :
        (/\ c1 # c2
         /\ CompleteBook(answered[c1].req) /\ CompleteBook(answered[c2].req)
         /\ answered[c1].req.date = answered[c2].req.date
         /\ answered[c1].req.time = answered[c2].req.time
         /\ answered[c1].status = 201)
        => answered[c2].status = 409

\* one request won while the other, for the same slot, was in flight, and the
\* other was then answered 409
C6_Witness ==
    \E c1, c2 \in Connections :
        /\ c1 # c2
        /\ CompleteBook(answered[c1].req) /\ answered[c1].status = 201
        /\ c2 \in overlap[c1]
        /\ answered[c2].req = answered[c1].req
        /\ answered[c2].status = 409

\* C7: an accepted override patch for date D that sets T to false leaves T out
\* of D's availability listing, booked or not; one that sets T to true leaves
\* T in the listing iff T is a standard slot of D and T is not booked.
C7_OverrideLaw ==
    [][\A r \in AdminPostRequests :
        (last'.req = r /\ last'.status = 200) =>
            \A t \in DOMAIN r.slots.map :
                /\ r.slots.map[t] = FALSE => t \notin Range(availableTimes(r.date))'
                /\ r.slots.map[t] = TRUE =>
                       (t \in Range(availableTimes(r.date))' <=>
                            /\ t \in Range(getStandardAvailability(r.date))
                            /\ ~HasRecord(r.date, t)')]_vars

\* a patch disabled an unbooked slot and set a booked slot to true
C7_Witness ==
    /\ last.req.route = POST_ADMIN_AVAILABILITY /\ last.status = 200
    /\ last.req.slots.map = (Slot8 :> FALSE) @@ (Slot9 :> TRUE)
    /\ ~HasRecord(last.req.date, Slot8)
    /\ HasRecord(last.req.date, Slot9)
    /\ availableTimes(last.req.date) = <<Slot10>>

AdminRoutes == {GET_ADMIN_BOOKINGS, GET_ADMIN_AVAILABILITY, POST_ADMIN_AVAILABILITY}
IsBearer(r) == r.auth # NoAuth /\ r.auth[1] = "Bearer"
Errors == {400, 401, 403, 409}

\* C8: a login with the correct passcode answers 200 with a token of the
\* registry; on every /api/admin route a bearer token of the registry is let
\* through (200, or the handler's own 400), a bearer token that is not in the
\* registry gets 403 and a missing or non-bearer Authorization header gets 401;
\* a request answered 401 or 403 changes no store and has no body.
C8_AuthLaw ==
    /\ [](last.req.route = POST_LOGIN /\ last.req.passcode = ADMIN_PASSCODE
            => last.status = 200 /\ last.body[1] \in validTokens)
    /\ [](last.req.route \in AdminRoutes =>
            IF ~IsBearer(last.req) THEN last.status = 401
            ELSE IF last.req.auth[2] \notin validTokens THEN last.status = 403
            ELSE IF last.req.route = POST_ADMIN_AVAILABILITY THEN last.status \in {200, 400}
            ELSE last.status = 200)
    /\ [][(last'.req.route \in AdminRoutes /\ last'.status \in {401, 403})
            => UNCHANGED stores /\ last'.body = <<>>]_vars

\* the token of a login opened the booking list
C8_Witness ==
    /\ last.req.route = GET_ADMIN_BOOKINGS /\ last.status = 200
    /\ last.req.auth[2] \in validTokens
    /\ last.body # <<<<>>>>

C10_ErrorsChangeNothing ==
    [][last'.status \in Errors => UNCHANGED stores]_vars

\* a patch without slots was answered 400 while overrides, bookings and a token exist
C10_Witness ==
    /\ last.req.route = POST_ADMIN_AVAILABILITY /\ last.status = 400
    /\ availabilityOverrides # <<>> /\ bookings # <<>> /\ validTokens # {}

\* C11 as stated: a GET /api/availability for a date answers with the same
\* list as the GET for that date before it when no booking was made in between.
C11_SameWithoutBooking ==
    [][\A d \in ListedDates :
        (/\ last'.req.route = GET_AVAILABILITY /\ last'.req.date = d /\ last'.status = 200
         /\ heard[d].times > 0 /\ ~heard[d].booked)
        => last'.body = heard[d].body]_vars

\* C11, amended: a GET /api/availability for a date answers with the same list
\* as the GET for that date before it when no booking was made and no override
\* patch was accepted in between, whatever other requests were handled.
C11_SameWithoutBookingOrPatch ==
    [][\A d \in ListedDates :
        (/\ last'.req.route = GET_AVAILABILITY /\ last'.req.date = d /\ last'.status = 200
         /\ heard[d].times > 0 /\ ~heard[d].booked /\ ~heard[d].patched)
        => last'.body = heard[d].body]_vars

\* the listing of a weekday with a booked and a disabled slot was given twice
\* in a row, no booking or patch in between, while a session token exists
C11_Witness ==
    /\ program = "secured"
    /\ last.req = AvailabilityRequest(Tuesday28) /\ last.status = 200
    /\ heard[Tuesday28].times = 2
    /\ last.body = <<Slot10>>
    /\ validTokens # {}

\* the days of October 2025 that are a Saturday or a Sunday (the 4th was a Saturday)
WeekendDays == {day \in 1..31 : day % 7 \in {4, 5}}

\* C12: for every date that is a Saturday or a Sunday (UTC) the availability
\* of the date is the empty list in every reachable state, whatever the
\* overrides of the date (overrides set to true among them), and a GET
\* /api/availability for such a date answers 200 with the empty list.
C12_WeekendEmpty ==
    program = "secured" =>
        /\ \A day \in WeekendDays : availableTimes(<<2025, 10, day>>) = <<>>
        /\ (last.req.route = GET_AVAILABILITY /\ last.req.date \in {Saturday25, Sunday26})
               => last.status = 200 /\ last.body = <<>>

\* the listing of a Saturday was asked for while a slot of that Saturday is
\* overridden to true
C12_Witness ==
    /\ last.req = AvailabilityRequest(Saturday25) /\ last.status = 200
    /\ OverrideIs(Saturday25, Slot8, TRUE)
    /\ last.body = <<>>

\* store maps every date of old to a list that starts with the list old has
Extends(store, old) ==
    \A d \in DOMAIN old :
        /\ d \in DOMAIN store
        /\ Len(store[d]) >= Len(old[d])
        /\ SubSeq(store[d], 1, Len(old[d])) = old[d]

\* C13: whatever request is handled, every date keeps its booking list, the
\* records the list holds stay where they are with their contents, and the
\* list changes by records appended at its end only; so a record for
\* (date, slot), once it exists, exists for ever.
C13_BookedIsTerminal ==
    [][/\ Extends(bookings', bookings)
       /\ Extends(basicBookings', basicBookings)
       /\ \A d \in DOMAIN bookings : \A t \in BookedTimes(d) : HasRecord(d, t)']_vars

\* an override patch disabled a booked slot of a date with two records, and
\* the record is still there
C13_Witness ==
    /\ last.req.route = POST_ADMIN_AVAILABILITY /\ last.status = 200
    /\ OverrideIs(Tuesday28, Slot8, FALSE)
    /\ Slot8 \in DOMAIN last.req.slots.map
    /\ HasRecord(Tuesday28, Slot8)
    /\ Len(bookings[Tuesday28]) = 2

\* C14: an accepted override patch for a date leaves the override map of the
\* date equal to the old map with the patch written over it: a slot of the
\* patch has the patch's value, a slot that is not in the patch keeps its value
\* or stays absent; the override maps of all other dates stay as they were.
C14_SetOverridesMerges ==
    [][\A r \in AdminPostRequests :
        (last'.req = r /\ last'.status = 200) =>
            LET old == dayOverrides(r.date)
                patch == r.slots.map
            IN  /\ DOMAIN availabilityOverrides' = DOMAIN availabilityOverrides \cup {r.date}
                /\ DOMAIN availabilityOverrides'[r.date] = DOMAIN old \cup DOMAIN patch
                /\ \A t \in DOMAIN patch : availabilityOverrides'[r.date][t] = patch[t]
                /\ \A t \in DOMAIN old \ DOMAIN patch :
                       availabilityOverrides'[r.date][t] = old[t]
                /\ \A d \in DOMAIN availabilityOverrides :
                       d # r.date => availabilityOverrides'[d] = availabilityOverrides[d]]_vars

\* a patch of one slot was accepted for a date that has an override of another
\* slot, while another date has overrides too
C14_Witness ==
    /\ last.req.route = POST_ADMIN_AVAILABILITY /\ last.status = 200
    /\ last.req.date = Tuesday28
    /\ last.req.slots.map = (Slot8 :> TRUE)
    /\ OverrideIs(Tuesday28, Slot8, TRUE)
    /\ OverrideIs(Tuesday28, Slot9, FALSE)
    /\ Saturday25 \in DOMAIN availabilityOverrides

\* store and old hold the same list for every date but d
SameButDate(store, old, d) ==
    /\ DOMAIN store \ {d} = DOMAIN old \ {d}
    /\ \A k \in DOMAIN old \ {d} : store[k] = old[k]

\* C15: a booking request changes nothing but the booking list of its own
\* date; a POST /api/admin/availability changes nothing but the override
\* store; a login changes nothing but the token registry; GET
\* /api/availability, GET /api/admin/bookings and GET /api/admin/availability
\* change no store.
C15_OwnStoreOnly ==
    [][/\ last'.req.route = POST_BOOK =>
            /\ UNCHANGED <<availabilityOverrides, validTokens>>
            /\ SameButDate(bookings', bookings, last'.req.date)
            /\ SameButDate(basicBookings', basicBookings, last'.req.date)
       /\ last'.req.route = POST_ADMIN_AVAILABILITY =>
            UNCHANGED <<bookings, validTokens, basicBookings>>
       /\ last'.req.route = POST_LOGIN =>
            UNCHANGED <<bookings, availabilityOverrides, basicBookings>>
       /\ last'.req.route \in {GET_AVAILABILITY, GET_ADMIN_BOOKINGS, GET_ADMIN_AVAILABILITY} =>
            UNCHANGED stores]_vars

\* a booking for a Tuesday was accepted while another date has a booking, an
\* override exists and a token is registered
C15_Witness ==
    /\ program = "secured"
    /\ last.req.route = POST_BOOK /\ last.status = 201 /\ last.req.date = Tuesday28
    /\ Saturday25 \in DOMAIN bookings
    /\ availabilityOverrides # <<>>
    /\ validTokens # {}

\* C16: a login with a passcode other than the configured one is answered 401
\* and leaves the token registry as it was; a login with the configured
\* passcode is answered 200 with a token of the registry that authMiddleware
\* lets through, whatever was answered before (refused logins among it).
C16_NoLockout ==
    /\ [][(last'.req.route = POST_LOGIN /\ last'.req.passcode # ADMIN_PASSCODE)
            => last'.status = 401 /\ UNCHANGED validTokens]_vars
    /\ [](last.req = LoginRequest(ADMIN_PASSCODE) =>
            /\ last.status = 200
            /\ last.body[1] \in validTokens
            /\ authMiddleware(AdminGetRequest(GET_ADMIN_BOOKINGS, <<"Bearer", last.body[1]>>)) = 0)

\* a login was refused and the login after it, with the configured passcode,
\* was given the token the registry holds
C16_Witness ==
    /\ previous.req = LoginRequest("letmein") /\ previous.status = 401
    /\ last.req = LoginRequest(ADMIN_PASSCODE) /\ last.status = 200
    /\ validTokens = {last.body[1]}

\* C17: a booking request that lacks one of date, time, name, email and
\* address is answered 400, also when the slot it names is booked or disabled;
\* a booking request that has these five is answered 201 or 409, with or
\* without notes (both servers).
C17_MissingFieldIs400 ==
    last.req.route = POST_BOOK =>
        IF CompleteBook(last.req) THEN last.status \in {201, 409} ELSE last.status = 400

\* a request without a name was answered 400 for a slot that is booked and
\* disabled
C17_Witness ==
    /\ last.req = BookRequest(Tuesday28, Slot8, NoName) /\ last.status = 400
    /\ HasRecord(Tuesday28, Slot8)
    /\ OverrideIs(Tuesday28, Slot8, FALSE)

\* C18: the override store changes only in the step of a POST
\* /api/admin/availability that carries a bearer token of the registry and is
\* answered 200, and the registry changes only in the step of a login answered
\* 200; while the registry is empty the override store is empty and every
\* request to an admin route is answered 401 or 403 without any mapping.
C18_OverridesNeedToken ==
    /\ [][/\ (availabilityOverrides' # availabilityOverrides) =>
                (/\ last'.req.route = POST_ADMIN_AVAILABILITY
                 /\ last'.status = 200
                 /\ IsBearer(last'.req)
                 /\ last'.req.auth[2] \in validTokens)
          /\ (validTokens' # validTokens) =>
                (last'.req.route = POST_LOGIN /\ last'.status = 200)]_vars
    /\ [](validTokens = {} =>
            (/\ availabilityOverrides = <<>>
             /\ (last.req.route \in AdminRoutes =>
                    (last.status \in {401, 403} /\ last.body = <<>>))))

\* a patch carrying the registered token put the first entry into the override
\* store while bookings exist
C18_Witness ==
    /\ last.req.route = POST_ADMIN_AVAILABILITY /\ last.status = 200
    /\ last.req.auth[2] \in validTokens
    /\ availabilityOverrides = (last.req.date :> last.req.slots.map)
    /\ last.req.slots.map # <<>>
    /\ bookings # <<>>

\* what a GET /api/availability for date d would list in the current state
Listing(d) ==
    IF program = "secured" THEN availableTimes(d)
    ELSE SelectSeq(basicStandardAvailability,
                   LAMBDA t : ~(d \in DOMAIN basicBookings /\ t \in Range(basicBookings[d])))

\* C19: when a GET /api/availability for date D has listed slot T and the
\* request handled next is a booking request for (D, T) with all required
\* fields, the booking is answered 201 and the listing of D is then the list
\* the GET gave without T: T is gone, every other slot is still listed.
C19_ListedSlotCanBeBooked ==
    (/\ previous.req.route = GET_AVAILABILITY /\ previous.status = 200
     /\ CompleteBook(last.req)
     /\ last.req.date = previous.req.date
     /\ last.req.time \in Range(previous.body))
    => /\ last.status = 201
       /\ Listing(last.req.date) = SelectSeq(previous.body, LAMBDA t : t # last.req.time)

\* the 08:00 slot was listed beside the 10:00 slot and booked by the next
\* request; the 10:00 slot is what remains
C19_Witness ==
    /\ previous.req = AvailabilityRequest(Tuesday28)
    /\ previous.body = <<Slot8, Slot10>>
    /\ last.req = BookRequest(Tuesday28, Slot8, Full) /\ last.status = 201
    /\ availableTimes(Tuesday28) = <<Slot10>>
====
